---- MODULE Spec2Model ----
(***************************************************************************)
(* Trust verification core of apex-athletics-os:                           *)
(*   - apps/api/src/middleware/clerkMiddleware.ts : getJWKS (the key-set    *)
(*     cache) and verifyClerkToken (bearer credential verification);       *)
(*   - apps/api/src/routes/billingWebhook.ts : verifyStripeSignature.       *)
(*                                                                         *)
(* Strings are represented by what the code reads from them.  A bearer      *)
(* token is the sequence of its dot-free pieces (what split('.') yields);   *)
(* a header or claims segment is a record holding the outcome of            *)
(* atob+JSON.parse on its text (json, obj) and, for claims, which of two    *)
(* texts of the same JSON it is (enc).  A JS object is a record whose       *)
(* domain is the set of fields present.  A thrown exception is the record   *)
(* [ok |-> FALSE, err |-> <message or exception name>].                     *)
(* One synchronous run of JavaScript (between two awaits) is one action     *)
(* and sees one value of the clock.                                         *)
(***************************************************************************)
EXTENDS Integers, Sequences, FiniteSets, TLC

----------------------------------------------------------------------------
(* Bounds of the model *)

NumProcs == 2      \* concurrent requests in flight
MaxTicks == 3      \* clock advances in one behaviour
MaxRows  == 2      \* rows of billing_records

----------------------------------------------------------------------------
(* Program constants *)

JWKS_CACHE_TTL == 3600000

Procs == 1 .. NumProcs

Null == [nil |-> TRUE]

EmptyObj == [f \in {} |-> 0]

\* JavaScript truthiness of obj.f: undefined is falsy, and so are the
\* string "" and the number 0
TruthyStr(obj, f) == f \in DOMAIN obj /\ obj[f] # ""

TruthyNum(obj, f) == f \in DOMAIN obj /\ obj[f] # 0

Throw(e) == [ok |-> FALSE, err |-> e]

----------------------------------------------------------------------------
(* Issuers and the key sets they publish *)

IssuerA == "https://a.clerk.accounts.dev"
IssuerB == "https://b.clerk.accounts.dev"
IssuerEvil == "https://idp.example.com"

\* the issuer strings of the model that contain the substring 'clerk'
ClerkIssuers == {IssuerA, IssuerB}

Issuers == {IssuerA, IssuerB, IssuerEvil}

\* iss.includes('clerk')
IncludesClerk(iss) == iss \in ClerkIssuers

Kids == <<"k1", "k2", "k3", "k4", "k5", "k6", "k7", "k8">>

\* The JWKS document served at <iss>/.well-known/jwks.json after v key
\* rotations: two keys, the older one retired by the next rotation.  src
\* and ver record where the document came from; the keys' material n is
\* particular to the issuer.
JWKSDoc(iss, v) ==
  [src |-> iss, ver |-> v,
   keys |-> << [kid |-> Kids[v + 1], n |-> <<iss, Kids[v + 1]>>],
               [kid |-> Kids[v + 2], n |-> <<iss, Kids[v + 2]>>] >>]

\* the issuers rotate their keys twice per cache lifetime
RotationPeriod == JWKS_CACHE_TTL \div 2

\* the document an issuer's endpoint serves at the instant t
ServedAt(iss, t) == JWKSDoc(iss, t \div RotationPeriod)

----------------------------------------------------------------------------
(* Bearer tokens *)

\* an optional field: opt is {} (absent) or {v}
Field(name, opt) == [f \in {n \in {name} : opt # {}} |-> CHOOSE v \in opt : TRUE]

Opt(S) == {{}} \cup {{v} : v \in S}

\* header segments: text that is not JSON, the JSON text null, and JSON
\* objects without kid and with a kid (two that issuers publish at the
\* start, one they do not)
HeaderSegs ==
  {[json |-> "bad", obj |-> EmptyObj], [json |-> "null", obj |-> EmptyObj]}
    \cup {[json |-> "ok", obj |-> Field("kid", k)] :
            k \in Opt({Kids[1], Kids[2], Kids[8]})}

\* exp values (seconds) around the instant t (milliseconds)
ExpChoices(t) == {0, t \div 1000, (t \div 1000) + 1}

ClaimsObjs(t) ==
  {Field("exp", e) @@ Field("iss", i) @@ Field("sub", s) :
     e \in Opt(ExpChoices(t)), i \in Opt(Issuers), s \in Opt({"u1"})}

\* claims segments; enc tells apart two texts of the same JSON value
ClaimsSegs(t) ==
  {[json |-> "bad", enc |-> "canon", obj |-> EmptyObj]}
    \cup {[json |-> "ok", enc |-> c, obj |-> o] :
            c \in {"canon", "alt"}, o \in ClaimsObjs(t)}

OtherText(seg) ==
  [seg EXCEPT !.enc = IF seg.enc = "canon" THEN "alt" ELSE "canon"]

\* private keys a signer may hold: those of the issuers' published keys
\* and one nobody publishes
SignerKeys ==
  {<<IssuerA, Kids[1]>>, <<IssuerA, Kids[2]>>, <<IssuerB, Kids[1]>>,
   <<IssuerEvil, Kids[1]>>}

\* signature segments for header h and claims p: text that is not
\* base64, or the base64url text of an RSASSA-PKCS1-v1_5 signature made
\* with the private key of material by over the text over
SigSegs(h, p) ==
  {[b64 |-> "bad", by |-> <<>>, over |-> <<>>]}
    \cup {[b64 |-> "ok", by |-> n, over |-> o] :
            n \in SignerKeys, o \in {<<h, p>>, <<h, OtherText(p)>>}}

Tokens3(t) ==
  UNION {{<<h, p, s>> : s \in SigSegs(h, p)} : h \in HeaderSegs, p \in ClaimsSegs(t)}

\* every token of the model: three pieces, or a three-piece token with
\* pieces removed or one added
Tokens(t) ==
  Tokens3(t) \cup
  UNION {{<<tk[1]>>, <<tk[1], tk[2]>>, tk \o <<tk[3]>>} :
           tk \in {x \in Tokens3(t) : x[3].by = <<IssuerA, Kids[1]>> /\ x[3].over = <<x[1], x[2]>>}}

\* tokens that reach the key-set lookup
GoodTokens ==
  {tk \in Tokens3(0) :
     /\ tk[1].json = "ok" /\ "kid" \in DOMAIN tk[1].obj
     /\ tk[2].json = "ok" /\ tk[2].enc = "canon"
     /\ DOMAIN tk[2].obj = {"iss", "sub"}
     /\ tk[2].obj.iss \in ClerkIssuers
     /\ tk[1].obj.kid = Kids[1]
     /\ tk[3].by \in {<<tk[2].obj.iss, Kids[1]>>, <<IssuerA, Kids[1]>>}
     /\ tk[3].over = <<tk[1], tk[2]>>}

----------------------------------------------------------------------------
(* verifyClerkToken, the synchronous part up to the call of getJWKS *)

ExpiredAt(payload, t) == TruthyNum(payload, "exp") /\ t >= payload.exp * 1000

\* (variant) any issuer that is present is taken
BadIssuer_MissingOnly(payload) == ~TruthyStr(payload, "iss")

\* line 141: !payload.iss || !payload.iss.includes('clerk')
BadIssuer(payload) == ~TruthyStr(payload, "iss") \/ ~IncludesClerk(payload.iss)

\* (variant) only too few pieces are refused
WrongFormat_TooFew(token) == Len(token) < 3

\* line 116: parts.length !== 3
WrongFormat(token) == Len(token) # 3

\* (variant) the issuer is validated before the expiry
PreVerify_IssuerFirst(token, t) ==
  IF WrongFormat(token) THEN Throw("Invalid JWT format")
  ELSE IF token[1].json = "bad" THEN Throw("SyntaxError")
  ELSE IF token[1].json = "null" THEN Throw("TypeError")
  ELSE IF ~TruthyStr(token[1].obj, "kid") THEN Throw("JWT header missing kid")
  ELSE IF token[2].json = "bad" THEN Throw("SyntaxError")
  ELSE IF BadIssuer(token[2].obj) THEN Throw("Invalid token issuer")
  ELSE IF ExpiredAt(token[2].obj, t) THEN Throw("Token has expired")
  ELSE [ok |-> TRUE, iss |-> token[2].obj.iss]

\* lines 115-143
PreVerify(token, t) ==
  IF WrongFormat(token) THEN Throw("Invalid JWT format")
  ELSE IF token[1].json = "bad" THEN Throw("SyntaxError")
  ELSE IF token[1].json = "null" THEN Throw("TypeError")
  ELSE IF ~TruthyStr(token[1].obj, "kid") THEN Throw("JWT header missing kid")
  ELSE IF token[2].json = "bad" THEN Throw("SyntaxError")
  ELSE IF ExpiredAt(token[2].obj, t) THEN Throw("Token has expired")
  ELSE IF BadIssuer(token[2].obj) THEN Throw("Invalid token issuer")
  ELSE [ok |-> TRUE, iss |-> token[2].obj.iss]

(* verifyClerkToken, from the key set to the result *)

\* jwks.keys.find((k) => k.kid === kid)
FindKey(keys, kid) ==
  LET idx == {i \in 1 .. Len(keys) : keys[i].kid = kid}
  IN  IF idx = {} THEN Null
      ELSE keys[CHOOSE i \in idx : \A j \in idx : i <= j]

\* (variant) the signed text is rebuilt from the parsed claims
SigningInput_Reserialized(token) == <<token[1], [token[2] EXCEPT !.enc = "canon"]>>

\* `${headerB64}.${payloadB64}`: the received text of the two pieces
SigningInput(token) == <<token[1], token[2]>>

\* crypto.subtle.verify with the public key of material n
RSAVerify(n, sig, data) == sig.by = n /\ sig.over = data

PostVerify(token, jwks) ==
  LET jwk == FindKey(jwks.keys, token[1].obj.kid)
  IN  IF jwk = Null THEN Throw("Signing key not found in JWKS")
      ELSE IF token[3].b64 = "bad" THEN Throw("InvalidCharacterError")
      ELSE IF ~RSAVerify(jwk.n, token[3], SigningInput(token))
           THEN Throw("Invalid token signature")
      ELSE [ok |-> TRUE, payload |-> token[2].obj]

----------------------------------------------------------------------------
(* Webhook envelopes *)
(* A string is the sequence of its characters.  A character is [ch |-> c], *)
(* and [hex |-> m, pos |-> i, up |-> u] is the i-th hexadecimal digit of   *)
(* the digest m, in lower (u = FALSE) or upper case.  A signature header   *)
(* is the sequence of its comma-separated elements, an element the         *)
(* sequence of its '='-separated parts.  A payload is a record: its text   *)
(* as one character, what JSON.parse makes of it (json, obj).              *)

Ch(c) == [ch |-> c]

DigitChars == <<"0", "1", "2", "3", "4", "5", "6", "7", "8", "9">>

IsDigit(c) == \E d \in 1 .. 10 : c = Ch(DigitChars[d])

DigitValue(c) == (CHOOSE d \in 1 .. 10 : c = Ch(DigitChars[d])) - 1

\* the decimal text of the natural number n
RECURSIVE ToDecimal(_)
ToDecimal(n) ==
  IF n < 10 THEN <<Ch(DigitChars[n + 1])>>
  ELSE ToDecimal(n \div 10) \o <<Ch(DigitChars[(n % 10) + 1])>>

NaN == [nan |-> TRUE, val |-> 0]

Num(n) == [nan |-> FALSE, val |-> n]

\* the value of the longest prefix of decimal digits of s
RECURSIVE DigitsValue(_, _)
DigitsValue(s, acc) ==
  IF s = <<>> \/ ~IsDigit(Head(s)) THEN acc
  ELSE DigitsValue(Tail(s), 10 * acc + DigitValue(Head(s)))

\* parseInt(s, 10): an optional sign and the leading digits; NaN when
\* there is no digit
ParseInt(s) ==
  LET signed == s # <<>> /\ Head(s) \in {Ch("-"), Ch("+")}
      body   == IF signed THEN Tail(s) ELSE s
  IN  IF body = <<>> \/ ~IsDigit(Head(body)) THEN NaN
      ELSE IF signed /\ Head(s) = Ch("-") THEN Num(0 - DigitsValue(body, 0))
      ELSE Num(DigitsValue(body, 0))

\* undefined where a string is expected: a text of one symbol that is no
\* character
Undefined == <<[undefined |-> TRUE]>>

\* !x for a string or undefined
Falsy(x) == x = Undefined \/ x = <<>>

KeyT == <<Ch("t")>>
KeyV0 == <<Ch("v"), Ch("0")>>
KeyV1 == <<Ch("v"), Ch("1")>>
KeyV2 == <<Ch("v"), Ch("2")>>

\* (variant) every version tag v0, v1, v2 counts as the signature to compare
RECURSIVE SignatureMap_AnyVersion(_)
SignatureMap_AnyVersion(elements) ==
  IF elements = <<>> THEN [k \in {} |-> Undefined]
  ELSE LET e    == elements[Len(elements)]
           rest == SignatureMap_AnyVersion(SubSeq(elements, 1, Len(elements) - 1))
           key  == IF e[1] \in {KeyV0, KeyV2} THEN KeyV1 ELSE e[1]
           v    == IF Len(e) >= 2 THEN e[2] ELSE Undefined
       IN  [k \in DOMAIN rest \cup {key} |-> IF k = key THEN v ELSE rest[k]]

\* (variant) of several pairs with one key the first counts
RECURSIVE SignatureMap_FirstWins(_)
SignatureMap_FirstWins(elements) ==
  IF elements = <<>> THEN [k \in {} |-> Undefined]
  ELSE LET e    == elements[Len(elements)]
           rest == SignatureMap_FirstWins(SubSeq(elements, 1, Len(elements) - 1))
           v    == IF Len(e) >= 2 THEN e[2] ELSE Undefined
       IN  [k \in DOMAIN rest \cup {e[1]} |-> IF k \in DOMAIN rest THEN rest[k] ELSE v]

\* lines 38-41: const [key, value] = element.split('='); signatureMap[key] = value
RECURSIVE SignatureMap(_)
SignatureMap(elements) ==
  IF elements = <<>> THEN [k \in {} |-> Undefined]
  ELSE LET e    == elements[Len(elements)]
           rest == SignatureMap(SubSeq(elements, 1, Len(elements) - 1))
           v    == IF Len(e) >= 2 THEN e[2] ELSE Undefined
       IN  [k \in DOMAIN rest \cup {e[1]} |-> IF k = e[1] THEN v ELSE rest[k]]

Lookup(map, k) == IF k \in DOMAIN map THEN map[k] ELSE Undefined

TOLERANCE == 300

\* (variant) an envelope exactly as old as the tolerance is refused
TooOld_AtTolerance(t, timestamp) ==
  LET ts == ParseInt(timestamp)
  IN  ~ts.nan /\ (t \div 1000) - ts.val >= TOLERANCE

\* lines 51-52: Math.floor(Date.now() / 1000) - parseInt(timestamp, 10) > 300;
\* a comparison with NaN is false
TooOld(t, timestamp) ==
  LET ts == ParseInt(timestamp)
  IN  ~ts.nan /\ (t \div 1000) - ts.val > TOLERANCE

\* (variant) the timestamp is not part of what is signed
SignedPayload_NoTimestamp(timestamp, payload) == <<Ch(payload)>>

\* line 57: `${timestamp}.${payload}`
SignedPayload(timestamp, payload) == timestamp \o <<Ch(".")>> \o <<Ch(payload)>>

\* HMAC-SHA256 as an ideal MAC: the digest names its key and message
Hmac(secret, message) == [key |-> secret, msg |-> message]

DigestBytes == 32

\* lines 71-73: two lower-case hexadecimal digits per byte of the digest
Hex(digest) ==
  [i \in 1 .. 2 * DigestBytes |-> [hex |-> digest, pos |-> i, up |-> FALSE]]

\* how a JavaScript engine may compare two strings with ===: the language
\* fixes the result only; "early" stops at the first differing character,
\* "full" looks at every character
Engines == {"early", "full"}

\* the characters an engine looks at to decide a === b (none when the
\* lengths differ)
CompareSteps(engine, a, b) ==
  IF Len(a) # Len(b) THEN 0
  ELSE LET diff == {i \in 1 .. Len(a) : a[i] # b[i]}
       IN  IF engine = "full" \/ diff = {} THEN Len(a)
           ELSE CHOOSE i \in diff : \A j \in diff : i <= j

\* verifyStripeSignature: the boolean returned, with (history) the line
\* that returned it, the messages an HMAC was computed over and the
\* characters the comparison of line 76 looked at
VerifyStripeSignature(payload, signature, secret, t, engine) ==
  LET map         == SignatureMap(signature)
      timestamp   == Lookup(map, KeyT)
      v1Signature == Lookup(map, KeyV1)
  IN  IF Falsy(timestamp) \/ Falsy(v1Signature)
      THEN [ok |-> FALSE, line |-> 47, hmacs |-> {}, steps |-> 0]
      ELSE IF TooOld(t, timestamp)
      THEN [ok |-> FALSE, line |-> 53, hmacs |-> {}, steps |-> 0]
      ELSE LET expectedSignature == Hex(Hmac(secret, SignedPayload(timestamp, payload)))
           IN  [ok |-> expectedSignature = v1Signature,
                line |-> 76,
                hmacs |-> {SignedPayload(timestamp, payload)},
                steps |-> CompareSteps(engine, expectedSignature, v1Signature)]

----------------------------------------------------------------------------
(* State *)

VARIABLES
  now,        \* Date.now(), milliseconds
  ticks,      \* clock advances so far
  jwksCache,  \* the module variable jwksCache: Null or [keys, fetchedAt]
  call,       \* per request in flight: where verifyClerkToken/getJWKS stands
  last,       \* the call of verifyClerkToken that has just ended, or Null
  lastWrite,  \* history: the (keys, fetchedAt) pair of the last completed store
  resp,       \* the webhook delivery that has just been answered, or Null
  billing     \* the rows of the table billing_records, in insertion order

vars == <<now, ticks, jwksCache, call, last, lastWrite, resp, billing>>

\* call[p]:
\*   pc      "idle", "fetch" (awaiting fetch), "json" (awaiting
\*           response.json())
\*   token   the argument of verifyClerkToken
\*   now     what Date.now() returned in the synchronous part (line 136,
\*           and the local const now of getJWKS, line 55)
\*   seen    history: what getJWKS found in jwksCache: "empty", or by the
\*           age of the snapshot "fresh" (younger than the TTL), "due"
\*           (exactly the TTL) or "stale" (older)
\*   fetches history: calls of fetch() made
Idle == [pc |-> "idle", token |-> <<>>, now |-> 0, seen |-> "", fetches |-> 0]

\* clerkMiddleware, lines 182-198, from the outcome of verifyClerkToken:
\* on a payload, c.set('user', { id: payload.sub, email: payload.email ||
\* '', ... }) and next(); on a throw, HTTPException 401.  A property whose
\* value is undefined is a field that is absent.
ClerkMiddleware(result) ==
  IF result.ok
  THEN [next |-> TRUE, status |-> 200,
        user |-> Field("id", IF "sub" \in DOMAIN result.payload
                             THEN {result.payload.sub} ELSE {})
                 @@ [email |-> ""]]
  ELSE [next |-> FALSE, status |-> 401, user |-> Null]

\* last: the record of the call, with
\*   by      the request it belonged to
\*   fetched history: how the fetch went: "none" (no fetch), "rejected",
\*           "notok", "badjson" or "ok"
\*   jwks    what getJWKS returned or threw (Null when it was not called),
\*           and (history) whether it came from the cache, the instant
\*           it was returned and, for a fetched one, what the store
\*           replaced in jwksCache
\*   result  what verifyClerkToken returned or threw
\*   ctx     what clerkMiddleware did with it
Ended(p, c, fetched, jwks, result) ==
  [by |-> p, token |-> c.token, now |-> c.now, seen |-> c.seen,
   fetches |-> c.fetches, fetched |-> fetched, jwks |-> jwks, result |-> result,
   ctx |-> ClerkMiddleware(result)]

Init ==
  /\ now = 0
  /\ ticks = 0
  /\ jwksCache = Null
  /\ call = [p \in Procs |-> Idle]
  /\ last = Null
  /\ lastWrite = Null
  /\ resp = Null
  /\ billing = <<>>

----------------------------------------------------------------------------
(* getJWKS *)

\* (variant) a cached snapshot is reused whatever its age
CacheFresh_AnyAge(cache, t) == cache # Null

\* line 57: jwksCache && now - jwksCache.fetchedAt < JWKS_CACHE_TTL
CacheFresh(cache, t) == cache # Null /\ t - cache.fetchedAt < JWKS_CACHE_TTL

\* (variant) a store with an older timestamp does not replace a newer one
StoreJWKS_KeepNewer(cache, jwks, t) ==
  IF cache # Null /\ cache.fetchedAt > t THEN cache
  ELSE [keys |-> jwks, fetchedAt |-> t]

\* (variant) the snapshot is stamped with the instant it is stored
StoreJWKS_AtReceipt(cache, jwks, t) == [keys |-> jwks, fetchedAt |-> now]

\* line 69: jwksCache = { keys: jwks, fetchedAt: now }
StoreJWKS(cache, jwks, t) == [keys |-> jwks, fetchedAt |-> t]

\* (variant) a failed fetch drops the cached snapshot
FetchFailed_Drop(cache) == Null

\* lines 62-68: a throw leaves the module variable as it is, and is what
\* getJWKS ends with
FetchFailed(cache) == cache

OnFetchFailure(cache, e) == Throw(e)

\* verifyClerkToken(token) up to its first suspension: a throw, a cache
\* hit (the rest of the function then uses the local jwks only), or the
\* start of a fetch
Begin(p, token) ==
  /\ call[p].pc = "idle"
  /\ last = Null
  /\ LET pre == PreVerify(token, now)
         c   == [Idle EXCEPT !.token = token, !.now = now]
         g   == [c EXCEPT !.seen =
                    IF jwksCache = Null THEN "empty"
                    ELSE IF now - jwksCache.fetchedAt > JWKS_CACHE_TTL THEN "stale"
                    ELSE IF now - jwksCache.fetchedAt = JWKS_CACHE_TTL THEN "due"
                    ELSE "fresh"]
     IN  IF ~pre.ok
         THEN /\ last' = Ended(p, c, "none", Null, pre)
              /\ UNCHANGED call
         ELSE IF CacheFresh(jwksCache, now)
         THEN /\ last' = Ended(p, g, "none",
                           [ok |-> TRUE, keys |-> jwksCache.keys,
                            from |-> "cache", at |-> now,
                            fetchedAt |-> jwksCache.fetchedAt],
                           PostVerify(token, jwksCache.keys))
              /\ UNCHANGED call
         ELSE /\ call' = [call EXCEPT ![p] = [g EXCEPT !.pc = "fetch", !.fetches = 1]]
              /\ UNCHANGED last
  /\ UNCHANGED <<now, ticks, jwksCache, lastWrite, resp, billing>>

\* await fetch(jwksUrl) settles: rejected (network error), a non-OK
\* response, or an OK response
FetchSettles(p, outcome) ==
  /\ call[p].pc = "fetch"
  /\ last = Null
  /\ IF outcome = "ok"
     THEN /\ call' = [call EXCEPT ![p].pc = "json"]
          /\ UNCHANGED <<jwksCache, last>>
     ELSE LET e == OnFetchFailure(jwksCache,
                      IF outcome = "rejected" THEN "TypeError"
                      ELSE "Failed to fetch JWKS")
          IN  /\ last' = Ended(p, call[p], outcome, e,
                             IF e.ok THEN PostVerify(call[p].token, e.keys) ELSE e)
              /\ call' = [call EXCEPT ![p] = Idle]
              /\ jwksCache' = FetchFailed(jwksCache)
  /\ UNCHANGED <<now, ticks, lastWrite, resp, billing>>

\* the document at `${issuer}/.well-known/jwks.json` for the issuer the
\* call was made with
ServedTo(p) == ServedAt(call[p].token[2].obj.iss, now)

\* await response.json() settles: with the parsed body, or rejected when
\* the body is not JSON
JsonSettles(p, parses) ==
  /\ call[p].pc = "json"
  /\ last = Null
  /\ IF ~parses
     THEN LET e == OnFetchFailure(jwksCache, "SyntaxError")
          IN  last' = Ended(p, call[p], "badjson", e,
                            IF e.ok THEN PostVerify(call[p].token, e.keys) ELSE e)
          /\ jwksCache' = FetchFailed(jwksCache)
          /\ UNCHANGED lastWrite
     ELSE LET body == ServedTo(p)
          IN  /\ jwksCache' = StoreJWKS(jwksCache, body, call[p].now)
              /\ lastWrite' = [keys |-> body, fetchedAt |-> call[p].now]
              /\ last' = Ended(p, call[p], "ok",
                           [ok |-> TRUE, keys |-> body, from |-> "fetch",
                            at |-> now, fetchedAt |-> call[p].now,
                            replaced |-> jwksCache],
                           PostVerify(call[p].token, body))
  /\ call' = [call EXCEPT ![p] = Idle]
  /\ UNCHANGED <<now, ticks, resp, billing>>

\* the caller takes the outcome of the call that has just ended; nothing
\* else happens in between, so last always describes the latest step
Observe ==
  /\ last # Null
  /\ last' = Null
  /\ UNCHANGED <<now, ticks, jwksCache, call, lastWrite, resp, billing>>

----------------------------------------------------------------------------
(* Environment *)

Tick(d) ==
  /\ ticks < MaxTicks
  /\ last = Null
  /\ resp = Null
  /\ now' = now + d
  /\ ticks' = ticks + 1
  /\ UNCHANGED <<jwksCache, call, last, lastWrite, resp, billing>>

----------------------------------------------------------------------------
(* The billing webhook handler *)

STRIPE_WEBHOOK_SECRET == "whsec_live"

OtherSecret == "whsec_guess"

Event(type, amount, metadata) ==
  [json |-> "ok",
   obj |-> [id |-> "evt_1", type |-> type,
            data |-> [object |-> [id |-> "pi_1", amount |-> amount,
                                  currency |-> "usd"] @@ metadata]]]

\* request bodies: a payment of user u1, the same with another amount, and
\* text that is not JSON
Payment == Event("payment_intent.succeeded", 500, [metadata |-> [userId |-> "u1"]])

PaymentAltered == Event("payment_intent.succeeded", 900, [metadata |-> [userId |-> "u1"]])

NotJson == [json |-> "bad", obj |-> EmptyObj]

Bodies == {Payment, PaymentAltered, NotJson}

\* ages (seconds) of the timestamps senders put in the header
AgeChoices == {TOLERANCE + 1, TOLERANCE, TOLERANCE - 1, 0, 0 - 60}

\* timestamp texts at the instant t: decimal seconds of those ages, text
\* without digits, the empty text
TimestampTexts(t) ==
  {ToDecimal((t \div 1000) - a) : a \in {x \in AgeChoices : (t \div 1000) - x >= 0}}
    \cup {<<Ch("a"), Ch("b"), Ch("c")>>, <<>>}

\* what a sender holding secret puts in v1 for timestamp ts and body b:
\* the lower-case hexadecimal HMAC-SHA256 of ts '.' b
SenderSignature(secret, ts, b) ==
  [i \in 1 .. 2 * DigestBytes |->
     [hex |-> [key |-> secret, msg |-> ts \o <<Ch(".")>> \o <<Ch(b)>>],
      pos |-> i, up |-> FALSE]]

\* the same digits in upper case
UpperCase(v) == [i \in DOMAIN v |-> [v[i] EXCEPT !.up = TRUE]]

\* v with another digit at position i
AlteredAt(v, i) == [v EXCEPT ![i] = Ch("0")]

\* v1 texts for timestamp ts and body b: the signature of the sender who
\* has the secret, one made with another secret, one made for another
\* body, the right digest in upper case, the right digest with its third
\* and with its last digit altered, the empty text
V1Texts(ts, b) ==
  {SenderSignature(STRIPE_WEBHOOK_SECRET, ts, b),
   SenderSignature(OtherSecret, ts, b),
   SenderSignature(STRIPE_WEBHOOK_SECRET, ts, PaymentAltered),
   UpperCase(SenderSignature(STRIPE_WEBHOOK_SECRET, ts, b)),
   AlteredAt(SenderSignature(STRIPE_WEBHOOK_SECRET, ts, b), 3),
   AlteredAt(SenderSignature(STRIPE_WEBHOOK_SECRET, ts, b), 2 * DigestBytes),
   <<>>}

\* signature headers: t and v1 in both orders, one of them missing, t
\* without '=', extra v0 and v2 pairs (between, before and after), two v1
\* pairs with the other one before and after
SignatureHeaders(t, b) ==
  UNION {UNION {
    {<< <<KeyT, ts>>, <<KeyV1, v>> >>,
     << <<KeyV1, v>>, <<KeyT, ts>> >>,
     << <<KeyT, ts>> >>,
     << <<KeyV1, v>> >>,
     << <<KeyT>>, <<KeyV1, v>> >>,
     << <<KeyT, ts>>, <<KeyV0, SenderSignature(OtherSecret, ts, b)>>, <<KeyV1, v>> >>,
     << <<KeyV0, SenderSignature(OtherSecret, ts, b)>>, <<KeyT, ts>>, <<KeyV1, v>>,
        <<KeyV2, SenderSignature(OtherSecret, ts, b)>> >>,
     << <<KeyT, ts>>, <<KeyV1, v>>, <<KeyV1, SenderSignature(OtherSecret, ts, b)>> >>,
     << <<KeyT, ts>>, <<KeyV1, SenderSignature(OtherSecret, ts, b)>>, <<KeyV1, v>> >>}
    : v \in V1Texts(ts, b)} : ts \in TimestampTexts(t)}

\* the header text '' splits into one element of one empty part
EmptyHeader == << << <<>> >> >>

\* the request carries no stripe-signature header
NoHeader == << <<Undefined>> >>

\* lines 84-88: c.req.header('stripe-signature') is undefined or ''
NoSignature(signature) == signature = NoHeader \/ signature = EmptyHeader

\* lines 106-157: the row the event makes the handler insert, or Null
RowFor(event, id) ==
  IF /\ event.type \in {"payment_intent.succeeded", "payment_intent.payment_failed"}
     /\ "metadata" \in DOMAIN event.data.object
     /\ TruthyStr(event.data.object.metadata, "userId")
  THEN [id |-> id,
        user_id |-> event.data.object.metadata.userId,
        amount |-> event.data.object.amount,
        currency |-> event.data.object.currency,
        status |-> IF event.type = "payment_intent.succeeded" THEN "completed"
                   ELSE "failed",
        stripe_payment_id |-> event.data.object.id]
  ELSE Null

\* (variant) the handler goes on whatever verifyStripeSignature returned
Rejected_Never(isValid) == FALSE

\* line 99: if (!isValid)
Rejected(isValid) == ~isValid

\* resp: the request (signature, body), the status answered and (history)
\* what verifyStripeSignature returned (Null: not called), whether
\* JSON.parse(rawBody) was called, and the row inserted (Null: none)
Answer(signature, body, status, verified, parsed, row) ==
  [signature |-> signature, body |-> body, at |-> now, status |-> status,
   verified |-> verified, parsed |-> parsed, row |-> row]

\* billingWebhookRoutes.post('/'): the whole handler; dbOk tells whether
\* the INSERT succeeds
Post(signature, body, dbOk) ==
  /\ resp = Null
  /\ Len(billing) < MaxRows
  /\ IF NoSignature(signature)
     THEN /\ resp' = Answer(signature, body, 400, Null, FALSE, Null)
          /\ UNCHANGED billing
     ELSE \E engine \in Engines :
          LET v == VerifyStripeSignature(body, signature, STRIPE_WEBHOOK_SECRET, now,
                                         engine)
          IN  IF Rejected(v.ok)
              THEN /\ resp' = Answer(signature, body, 401, v, FALSE, Null)
                   /\ UNCHANGED billing
              ELSE IF body.json = "bad"
              THEN /\ resp' = Answer(signature, body, 500, v, TRUE, Null)
                   /\ UNCHANGED billing
              ELSE LET row == RowFor(body.obj, Len(billing) + 1)
                   IN  IF row = Null
                       THEN /\ resp' = Answer(signature, body, 200, v, TRUE, Null)
                            /\ UNCHANGED billing
                       ELSE IF dbOk
                       THEN /\ resp' = Answer(signature, body, 200, v, TRUE, row)
                            /\ billing' = Append(billing, row)
                       ELSE /\ resp' = Answer(signature, body, 500, v, TRUE, Null)
                            /\ UNCHANGED billing
  /\ UNCHANGED <<now, ticks, jwksCache, call, last, lastWrite>>

\* the response has gone out
Sent ==
  /\ resp # Null
  /\ resp' = Null
  /\ UNCHANGED <<now, ticks, jwksCache, call, last, lastWrite, billing>>

----------------------------------------------------------------------------
(* Specifications *)

\* clock advances that put a stored snapshot inside, exactly at and
\* beyond the time-to-live
CacheSteps == {JWKS_CACHE_TTL \div 2}

\* concurrent requests whose tokens reach the key-set lookup
Next ==
  \/ \E p \in Procs, token \in GoodTokens : Begin(p, token)
  \/ \E p \in Procs, outcome \in {"rejected", "notok", "ok"} : FetchSettles(p, outcome)
  \/ \E p \in Procs, parses \in BOOLEAN : JsonSettles(p, parses)
  \/ Observe
  \/ \E d \in CacheSteps : Tick(d)

Spec == Init /\ [][Next]_vars

\* clock advances of a millisecond and up to a second boundary
VerifySteps == {1, 999}

\* one request at a time, any token
NextVerify ==
  \/ /\ call[1].pc = "idle" /\ last = Null
     /\ \E token \in Tokens(now) : Begin(1, token)
  \/ \E outcome \in {"rejected", "notok", "ok"} : FetchSettles(1, outcome)
  \/ \E parses \in BOOLEAN : JsonSettles(1, parses)
  \/ Observe
  \/ \E d \in VerifySteps : Tick(d)

SpecVerify == Init /\ [][NextVerify]_vars

\* clock advances to just before and just after the tolerance
WebhookSteps == {999, 1000 * TOLERANCE + 1}

\* webhook deliveries, one at a time
NextWebhook ==
  \/ /\ resp = Null /\ Len(billing) < MaxRows
     /\ \E body \in Bodies, dbOk \in BOOLEAN :
          \E signature \in SignatureHeaders(now, body) \cup {NoHeader, EmptyHeader} :
             Post(signature, body, dbOk)
  \/ Sent
  \/ \E d \in WebhookSteps : Tick(d)

SpecWebhook == Init /\ [][NextWebhook]_vars

----------------------------------------------------------------------------
(* Properties of the key-set cache (Spec) *)

GotJWKS == last # Null /\ last.jwks # Null /\ last.jwks.ok

IssuerOf(token) == token[2].obj.iss

\* C1: getJWKS never returns a cached snapshot older than the TTL; a call
\* that finds the cache empty or older than the TTL fetches, and what it
\* returns is the document fetched by that call.
CacheNeverStale ==
  /\ \A p \in Procs : call[p].pc # "idle" => call[p].fetches = 1
  /\ last # Null /\ last.jwks # Null =>
       /\ (last.jwks.ok /\ last.jwks.from = "cache") =>
            /\ last.jwks.at - last.jwks.fetchedAt <= JWKS_CACHE_TTL
            /\ last.jwks.keys = jwksCache.keys
            /\ last.jwks.fetchedAt = jwksCache.fetchedAt
            /\ last.seen = "fresh"
       /\ last.seen \in {"empty", "stale"} =>
            /\ last.fetches = 1
            /\ last.fetched # "none"
            /\ last.jwks.ok =>
                 /\ last.jwks.from = "fetch"
                 /\ last.jwks.keys = ServedAt(IssuerOf(last.token), now)

\* a snapshot older than the TTL was in the cache and the call returned a
\* fetched one
RefetchAfterTTL ==
  /\ GotJWKS
  /\ last.seen = "stale"
  /\ last.jwks.from = "fetch"

\* C2: a call whose fetch fails (rejected, non-OK, body not JSON) ends with
\* a throw, not with a snapshot, and the step leaves jwksCache as it was.
FetchFailureThrows ==
  [][(last = Null /\ last' # Null /\ last'.fetched \in {"rejected", "notok", "badjson"})
       => /\ ~last'.jwks.ok
          /\ last'.jwks.err \in {"TypeError", "Failed to fetch JWKS", "SyntaxError"}
          /\ last'.result = last'.jwks
          /\ jwksCache' = jwksCache]_vars

\* a fetch has failed while a snapshot older than the TTL was cached
FailedWithStaleCached ==
  /\ last # Null
  /\ last.fetched \in {"rejected", "notok", "badjson"}
  /\ last.seen = "stale"
  /\ jwksCache # Null

\* C3: what getJWKS(I) returns was fetched from I's own key-set location.
SnapshotOfOwnIssuer ==
  GotJWKS => last.jwks.keys.src = IssuerOf(last.token)

\* C4: jwksCache is empty or the complete (keys, fetchedAt) pair of one
\* successful fetch, the one stored last; a failed fetch does not change it.
StoreIsAtomic ==
  /\ jwksCache = lastWrite
  /\ jwksCache # Null =>
       /\ DOMAIN jwksCache = {"keys", "fetchedAt"}
       /\ jwksCache.keys.src \in ClerkIssuers
       /\ jwksCache.keys = JWKSDoc(jwksCache.keys.src, jwksCache.keys.ver)
       /\ jwksCache.keys.ver >= jwksCache.fetchedAt \div RotationPeriod
       /\ jwksCache.fetchedAt <= now

\* a store completed while another call that missed the cache at a later
\* instant is still in flight
RacingMisses ==
  /\ GotJWKS
  /\ last.jwks.from = "fetch"
  /\ \E q \in Procs : /\ call[q].pc \in {"fetch", "json"}
                      /\ call[q].now > last.now

----------------------------------------------------------------------------
(* Properties of verifyClerkToken (SpecVerify) *)

Decodable(token) ==
  Len(token) = 3 /\ token[1].json = "ok" /\ token[2].json = "ok"

HasKid(token) == "kid" \in DOMAIN token[1].obj

\* the failure kind of the design for what the call threw; an exception
\* of atob or JSON.parse counts as MalformedCredential, and the single
\* issuer error as whichever of the two issuer failures applies
KindOf(c) ==
  LET e == c.result.err
  IN  IF c.jwks = Null
      THEN CASE e = "Invalid JWT format" -> "MalformedCredential"
             [] e \in {"SyntaxError", "TypeError"} -> "MalformedCredential"
             [] e = "JWT header missing kid" -> "KeyIdMissing"
             [] e = "Token has expired" -> "TokenExpired"
             [] e = "Invalid token issuer" ->
                  IF "iss" \in DOMAIN c.token[2].obj THEN "UntrustedIssuer"
                  ELSE "IssuerMissing"
      ELSE IF ~c.jwks.ok THEN "KeySetUnavailable"
      ELSE CASE e = "Signing key not found in JWKS" -> "SigningKeyNotFound"
             [] OTHER -> "SignatureInvalid"

\* the first failing step in the order decode, key id, issuer present,
\* issuer trusted, expiry ("none": the call goes on to the key set); the
\* expiry test is the one of the code, so that only the order is at issue
FirstFailureAsStated(token, t) ==
  IF ~Decodable(token) THEN "MalformedCredential"
  ELSE IF ~HasKid(token) THEN "KeyIdMissing"
  ELSE IF "iss" \notin DOMAIN token[2].obj THEN "IssuerMissing"
  ELSE IF ~IncludesClerk(token[2].obj.iss) THEN "UntrustedIssuer"
  ELSE IF ExpiredAt(token[2].obj, t) THEN "TokenExpired"
  ELSE "none"

\* C5 (as stated): the failure reported is that of the first failing step
\* in the order decode (header and claims), key id, issuer present, issuer
\* trusted, expiry, key set, key selection, signature.
FailureInStatedOrder ==
  last # Null =>
    IF FirstFailureAsStated(last.token, last.now) # "none"
    THEN ~last.result.ok /\ KindOf(last) = FirstFailureAsStated(last.token, last.now)
    ELSE last.jwks # Null

MatchingKeys(c) ==
  {i \in 1 .. Len(c.jwks.keys.keys) : c.jwks.keys.keys[i].kid = c.token[1].obj.kid}

\* C5 (amended): the failure reported is that of the first failing step in
\* the order piece count, header decode, key id, claims decode, expiry (a
\* non-zero exp at or before now), issuer (absent or untrusted, one error),
\* key set, key selection, signature decode, signature.
FailureInCodeOrder ==
  last # Null =>
    LET tk == last.token
        r  == last.result
    IN  IF Len(tk) # 3 THEN r = Throw("Invalid JWT format")
        ELSE IF tk[1].json = "bad" THEN r = Throw("SyntaxError")
        ELSE IF tk[1].json = "null" THEN r = Throw("TypeError")
        ELSE IF ~HasKid(tk) THEN r = Throw("JWT header missing kid")
        ELSE IF tk[2].json = "bad" THEN r = Throw("SyntaxError")
        ELSE IF "exp" \in DOMAIN tk[2].obj /\ tk[2].obj.exp # 0
                  /\ last.now >= tk[2].obj.exp * 1000
             THEN r = Throw("Token has expired")
        ELSE IF "iss" \notin DOMAIN tk[2].obj \/ tk[2].obj.iss \notin ClerkIssuers
             THEN r = Throw("Invalid token issuer") /\ last.jwks = Null
        ELSE /\ last.jwks # Null
             /\ IF ~last.jwks.ok THEN r = last.jwks
                ELSE IF MatchingKeys(last) = {}
                     THEN r = Throw("Signing key not found in JWKS")
                ELSE IF tk[3].b64 = "bad" THEN r = Throw("InvalidCharacterError")
                ELSE r.ok \/ r = Throw("Invalid token signature")

\* an expired token without a trusted issuer was refused as expired
ExpiredBeforeIssuer ==
  /\ last # Null
  /\ Decodable(last.token) /\ HasKid(last.token)
  /\ ExpiredAt(last.token[2].obj, last.now)
  /\ BadIssuer(last.token[2].obj)
  /\ last.result = Throw("Token has expired")

\* C6: a decodable token with a key id, a trusted issuer and an exp claim
\* (any number of seconds >= 0) is refused as expired whenever now is at or
\* past exp, whatever its signature.
ExpiredIsRefused ==
  (/\ last # Null
   /\ Decodable(last.token) /\ HasKid(last.token)
   /\ "iss" \in DOMAIN last.token[2].obj
   /\ last.token[2].obj.iss \in ClerkIssuers
   /\ "exp" \in DOMAIN last.token[2].obj
   /\ last.now >= last.token[2].obj.exp * 1000)
  => last.result = Throw("Token has expired")

\* C7: a token that does not split into exactly three pieces is refused
\* with 'Invalid JWT format', whatever its pieces hold, and no key set is
\* asked for.
WrongPieceCountRefused ==
  /\ call[1].pc # "idle" => Len(call[1].token) = 3
  /\ (last # Null /\ Len(last.token) # 3) =>
       /\ last.result = Throw("Invalid JWT format")
       /\ last.jwks = Null
       /\ last.fetches = 0
       /\ last.fetched = "none"

\* a token of four pieces whose header is not JSON was refused
FourPiecesRefused ==
  /\ last # Null
  /\ Len(last.token) = 4
  /\ last.token[1].json = "bad"
  /\ ~last.result.ok

\* C8: the call succeeds exactly when the signature is one made over the
\* received text of header and claims with the key whose kid is the
\* header's; another signature gives 'Invalid token signature', and a kid
\* that no key of the snapshot has gives 'Signing key not found in JWKS'.
SignatureDecides ==
  last # Null =>
    /\ last.result.ok => GotJWKS
    /\ GotJWKS =>
         LET tk == last.token
             m  == MatchingKeys(last)
         IN  /\ m = {} => last.result = Throw("Signing key not found in JWKS")
             /\ (m # {} /\ tk[3].b64 = "ok") =>
                  /\ last.result.ok <=>
                       \E i \in m : /\ tk[3].by = last.jwks.keys.keys[i].n
                                    /\ tk[3].over = <<tk[1], tk[2]>>
                  /\ ~last.result.ok => last.result = Throw("Invalid token signature")
                  /\ last.result.ok => last.result.payload = tk[2].obj

\* a token whose claims text is not the canonical one, signed over that
\* text, was accepted
AcceptedAsReceived ==
  /\ last # Null
  /\ last.result.ok
  /\ last.token[2].enc = "alt"

----------------------------------------------------------------------------
(* Properties of verifyStripeSignature (SpecWebhook) *)

\* the delivery just answered had the plain header t=<ts>,v1=<v> with a
\* non-empty v
PlainHeader ==
  /\ resp # Null
  /\ Len(resp.signature) = 2
  /\ Len(resp.signature[1]) = 2 /\ resp.signature[1][1] = KeyT
  /\ Len(resp.signature[2]) = 2 /\ resp.signature[2][1] = KeyV1
  /\ resp.signature[2][2] # <<>>

\* its timestamp is the decimal text of the second that was a seconds ago
\* when the handler ran
SentAtAge(a) ==
  /\ (resp.at \div 1000) - a >= 0
  /\ resp.signature[1][2] = ToDecimal((resp.at \div 1000) - a)

\* its v1 is the lower-case hexadecimal HMAC-SHA256, under the secret, of
\* timestamp '.' body as they were received
SignedAsReceived ==
  resp.signature[2][2] =
    SenderSignature(STRIPE_WEBHOOK_SECRET, resp.signature[1][2], resp.body)

\* C9: the replay window refuses an envelope exactly when its age in
\* seconds exceeds 300: a validly signed one of age 301 is refused, of age
\* 300 or 299 accepted, and one from the future passes the window.
WindowIsTolerance ==
  PlainHeader =>
    \A a \in AgeChoices :
      SentAtAge(a) =>
        /\ resp.verified.line = 53 <=> a > TOLERANCE
        /\ SignedAsReceived => (resp.verified.ok <=> a <= TOLERANCE)

\* a validly signed envelope exactly 300 seconds old was accepted
AcceptedAtTolerance ==
  /\ PlainHeader
  /\ SentAtAge(TOLERANCE)
  /\ SignedAsReceived
  /\ resp.verified.ok

\* C10: inside the window the signature verifies exactly when v1 is
\* hex(HMAC-SHA256(secret, T '.' P)) for the T and P received; any other
\* v1 (wrong text, other body, other secret) is refused at the comparison.
SignatureIsHmac ==
  PlainHeader =>
    \A a \in AgeChoices :
      (SentAtAge(a) /\ a <= TOLERANCE) =>
        /\ resp.verified.ok <=> SignedAsReceived
        /\ ~resp.verified.ok => resp.verified.line = 76 /\ resp.status = 401

\* a body was refused because v1 had been made for another body
AlteredBodyRefused ==
  /\ PlainHeader
  /\ SentAtAge(0)
  /\ resp.body = Payment
  /\ resp.signature[2][2] =
       SenderSignature(STRIPE_WEBHOOK_SECRET, resp.signature[1][2], PaymentAltered)
  /\ ~resp.verified.ok

IsCore(e) == e[1] \notin {KeyV0, KeyV2}

\* the header has a pair k=<value> with a non-empty value
HasPair(signature, k) ==
  \E i \in 1 .. Len(signature) :
    /\ signature[i][1] = k
    /\ Len(signature[i]) >= 2
    /\ signature[i][2] # <<>>

NoDuplicateKeys(signature) ==
  \A i, j \in 1 .. Len(signature) : signature[i][1] = signature[j][1] => i = j

\* C11: verifyStripeSignature returns at the header check (line 47)
\* exactly when the header has no t pair or no v1 pair with a non-empty
\* value, and pairs tagged v0 or v2, wherever they stand, do not change
\* what it returns: the same header without them gets the same answer.
OtherVersionsIgnored ==
  (resp # Null /\ resp.verified # Null) =>
    LET core == VerifyStripeSignature(resp.body, SelectSeq(resp.signature, IsCore),
                                      STRIPE_WEBHOOK_SECRET, resp.at, "full")
    IN  /\ NoDuplicateKeys(resp.signature) =>
             (resp.verified.line = 47
                <=> ~(HasPair(resp.signature, KeyT) /\ HasPair(resp.signature, KeyV1)))
        /\ resp.verified.ok = core.ok
        /\ resp.verified.line = core.line

\* a header with a v0 pair in front and a v2 pair at the end was accepted
AcceptedWithOtherVersions ==
  /\ resp # Null
  /\ Len(resp.signature) = 4
  /\ resp.signature[1][1] = KeyV0
  /\ resp.signature[4][1] = KeyV2
  /\ resp.verified # Null
  /\ resp.verified.ok
  /\ resp.status = 200

NotANumber == <<Ch("a"), Ch("b"), Ch("c")>>

\* C12: an envelope whose t value is text without digits ('t=abc') is
\* refused, and no HMAC is computed for it.
UnparseableTimestampRefused ==
  (PlainHeader /\ resp.signature[1][2] = NotANumber) =>
    /\ ~resp.verified.ok
    /\ resp.verified.hmacs = {}

\* C13: the handler calls JSON.parse(rawBody), and inserts a billing
\* record, only in a request whose verifyStripeSignature call on that same
\* body returned true; a request without signature header or with a failed
\* verification is answered 400 or 401 with nothing parsed and no row
\* inserted, and no other step changes the table.
ParseOnlyAfterVerification ==
  [][/\ (resp = Null /\ resp' # Null) =>
          /\ resp'.parsed =>
               /\ resp'.verified # Null
               /\ resp'.verified.ok
               /\ \A m \in resp'.verified.hmacs : m[Len(m)] = Ch(resp'.body)
          /\ (resp'.verified = Null \/ ~resp'.verified.ok) =>
               /\ ~resp'.parsed
               /\ resp'.row = Null
               /\ billing' = billing
               /\ resp'.status = IF resp'.verified = Null THEN 400 ELSE 401
          /\ billing' # billing =>
               /\ resp'.parsed
               /\ resp'.row # Null
               /\ billing' = Append(billing, resp'.row)
     /\ billing' # billing => (resp = Null /\ resp' # Null)]_vars

\* a payment body whose signature does not verify was answered 401
\* unparsed, after an earlier delivery had been recorded
RefusedUnparsed ==
  /\ resp # Null
  /\ resp.body = Payment
  /\ resp.verified # Null
  /\ resp.verified.line = 76
  /\ resp.status = 401
  /\ ~resp.parsed
  /\ Len(billing) = 1

----------------------------------------------------------------------------
(* Failure kinds *)

\* exceptions of atob, JSON.parse, a property read of null and fetch:
\* raised by the runtime, not by a throw of the verification code
GenericExceptions == {"SyntaxError", "TypeError", "InvalidCharacterError"}

\* one credential without issuer and one with an untrusted issuer, both
\* with a key id and without expiry, and what verifyClerkToken ends with
\* for each at the instant t
IssuerFailures(t) ==
  {[kind |-> IF "iss" \in DOMAIN p THEN "UntrustedIssuer" ELSE "IssuerMissing",
    result |-> PreVerify(<<[json |-> "ok", obj |-> [kid |-> Kids[1]]],
                           [json |-> "ok", enc |-> "canon", obj |-> p],
                           [b64 |-> "bad", by |-> <<>>, over |-> <<>>]>>, t)]
     : p \in {[sub |-> "u1"], [sub |-> "u1", iss |-> IssuerEvil]}}

\* three refused envelopes for the body Payment at the instant t, one of
\* each kind, and what verifyStripeSignature returns for each
EnvelopeFailures(t) ==
  LET ts  == ToDecimal(t \div 1000)
      old == <<Ch("-")>> \o ToDecimal(TOLERANCE + 1)
  IN  {[kind |-> "MalformedSignatureHeader",
        result |-> VerifyStripeSignature(Payment,
                     << <<KeyV1, SenderSignature(STRIPE_WEBHOOK_SECRET, ts, Payment)>> >>,
                     STRIPE_WEBHOOK_SECRET, t, "full").ok],
       [kind |-> "ReplayedOrStaleWebhook",
        result |-> VerifyStripeSignature(Payment,
                     << <<KeyT, old>>,
                        <<KeyV1, SenderSignature(STRIPE_WEBHOOK_SECRET, old, Payment)>> >>,
                     STRIPE_WEBHOOK_SECRET, t, "full").ok],
       [kind |-> "SignatureMismatch",
        result |-> VerifyStripeSignature(Payment,
                     << <<KeyT, ts>>,
                        <<KeyV1, SenderSignature(OtherSecret, ts, Payment)>> >>,
                     STRIPE_WEBHOOK_SECRET, t, "full").ok]}

\* C14: a failed verifyClerkToken call ends with an error of the
\* verification code, never with a runtime exception, and with one that
\* tells its failure kind from every other kind (here: from a missing and
\* from an untrusted issuer).
FailureKindsDistinct ==
  (last # Null /\ ~last.result.ok) =>
    /\ last.result.err \notin GenericExceptions
    /\ \A f \in IssuerFailures(last.now) :
         f.kind # KindOf(last) => f.result # last.result

\* the failure kind of the design for the return statement that refused
EnvelopeKindOf(verified) ==
  CASE verified.line = 47 -> "MalformedSignatureHeader"
    [] verified.line = 53 -> "ReplayedOrStaleWebhook"
    [] verified.line = 76 -> "SignatureMismatch"

\* C14 (webhook path): what verifyStripeSignature returns for a refused
\* envelope differs from what it returns for a refusal of another kind.
EnvelopeFailuresDistinct ==
  (resp # Null /\ resp.verified # Null /\ ~resp.verified.ok) =>
    \A f \in EnvelopeFailures(resp.at) :
      f.kind # EnvelopeKindOf(resp.verified) => f.result # resp.verified.ok

----------------------------------------------------------------------------
(* The comparison of line 76 *)

\* C15: the comparison of the expected signature with a supplied v1 of
\* the same length looks at every character, wherever the first
\* difference is: its number of steps is the length, for every v1.
ComparisonConstantTime ==
  (/\ PlainHeader
   /\ resp.verified.line = 76
   /\ Len(resp.signature[2][2]) = 2 * DigestBytes)
  => resp.verified.steps = 2 * DigestBytes

----------------------------------------------------------------------------
(* Outbound requests of verifyClerkToken (SpecVerify) *)

\* C16: a call of verifyClerkToken makes at most one fetch: none when the
\* cached snapshot is younger than the TTL, none when the token failed
\* the piece count, decoding, the key id, the issuer or the expiry test
\* (getJWKS is then not called at all), and when its one fetch fails the
\* call ends with a throw.
AtMostOneFetch ==
  /\ \A p \in Procs :
       /\ call[p].fetches <= 1
       /\ call[p].pc \in {"fetch", "json"} =>
            (call[p].fetches = 1 /\ call[p].seen # "fresh")
  /\ last # Null =>
       /\ last.fetches <= 1
       /\ last.fetches = 0 <=> last.fetched = "none"
       /\ last.seen = "fresh" => last.fetches = 0
       /\ FirstFailureAsStated(last.token, last.now) # "none" =>
            /\ last.fetches = 0
            /\ last.jwks = Null
            /\ ~last.result.ok
       /\ last.fetched \in {"rejected", "notok", "badjson"} =>
            /\ last.fetches = 1
            /\ ~last.result.ok

\* a token with a key id and an untrusted issuer was refused without a
\* fetch while no snapshot was cached
UntrustedIssuerNoFetch ==
  /\ last # Null
  /\ Decodable(last.token) /\ HasKid(last.token)
  /\ "iss" \in DOMAIN last.token[2].obj
  /\ last.token[2].obj.iss = IssuerEvil
  /\ ~ExpiredAt(last.token[2].obj, last.now)
  /\ jwksCache = Null
  /\ last.fetches = 0
  /\ ~last.result.ok

----------------------------------------------------------------------------
(* clerkMiddleware (SpecVerify) *)

\* C17: clerkMiddleware sets the user and invokes the downstream handler
\* only when verifyClerkToken returned a payload, the user then has the
\* subject of the claims as its id, and a token whose claims have no sub
\* never gets a user set; after a throw no user is set, next is not
\* invoked and the answer is 401.
IdentityOnlyWithSubject ==
  last # Null =>
    /\ last.ctx.next =>
         /\ last.result.ok
         /\ last.ctx.user # Null
         /\ "id" \in DOMAIN last.ctx.user
         /\ "sub" \in DOMAIN last.token[2].obj
         /\ last.ctx.user.id = last.token[2].obj.sub
    /\ ~last.result.ok =>
         /\ ~last.ctx.next
         /\ last.ctx.user = Null
         /\ last.ctx.status = 401
    /\ (Decodable(last.token) /\ "sub" \notin DOMAIN last.token[2].obj) =>
         last.ctx.user = Null

----------------------------------------------------------------------------
(* The timestamp of a stored snapshot (Spec) *)

\* C18: the fetchedAt stored with a snapshot is the instant its getJWKS
\* call started (not the later instant the document arrived); the store
\* replaces whatever is cached, also a snapshot with a later fetchedAt;
\* and a cached snapshot is returned only while less than the TTL has
\* passed since the call that fetched it started.
FetchedAtIsCallStart ==
  /\ jwksCache # Null =>
       /\ jwksCache.fetchedAt <= now
       /\ jwksCache.fetchedAt \div RotationPeriod <= jwksCache.keys.ver
  /\ (GotJWKS /\ last.jwks.from = "fetch") =>
       /\ last.now <= last.jwks.at
       /\ last.jwks.keys = ServedAt(IssuerOf(last.token), last.jwks.at)
       /\ jwksCache = [keys |-> last.jwks.keys, fetchedAt |-> last.now]
  /\ (GotJWKS /\ last.jwks.from = "cache") =>
       /\ last.jwks.fetchedAt = jwksCache.fetchedAt
       /\ last.jwks.at - last.jwks.fetchedAt < JWKS_CACHE_TTL

\* a store has replaced a snapshot by one with an earlier fetchedAt
TimestampWentBack ==
  /\ GotJWKS
  /\ last.jwks.from = "fetch"
  /\ last.jwks.replaced # Null
  /\ last.jwks.replaced.fetchedAt > jwksCache.fetchedAt

----------------------------------------------------------------------------
(* Repeated deliveries (SpecWebhook) *)

\* the delivery just answered had the header t=<ts>,v1=<a>,v1=<b>
TwoV1Header ==
  /\ resp # Null
  /\ Len(resp.signature) = 3
  /\ Len(resp.signature[1]) = 2 /\ resp.signature[1][1] = KeyT
  /\ Len(resp.signature[2]) = 2 /\ resp.signature[2][1] = KeyV1
  /\ Len(resp.signature[3]) = 2 /\ resp.signature[3][1] = KeyV1

InWindow == \E a \in AgeChoices : a <= TOLERANCE /\ SentAtAge(a)

\* C19: a validly signed envelope inside the window is accepted whatever
\* has been accepted and recorded before, and for a payment event with a
\* user id every such delivery whose INSERT succeeds appends one more row;
\* of two v1 pairs in a header only the last one is compared.
NoReplayRecord ==
  /\ (PlainHeader /\ InWindow /\ SignedAsReceived) =>
       /\ resp.verified.ok
       /\ resp.body = Payment =>
            /\ resp.status \in {200, 500}
            /\ resp.status = 200 =>
                 /\ resp.row # Null
                 /\ resp.row.stripe_payment_id = Payment.obj.data.object.id
                 /\ billing # <<>>
                 /\ billing[Len(billing)] = resp.row
  /\ (TwoV1Header /\ InWindow) =>
       IF resp.signature[3][2] = <<>> THEN resp.verified.line = 47
       ELSE /\ resp.verified.line = 76
            /\ resp.verified.ok <=>
                 resp.signature[3][2] =
                   SenderSignature(STRIPE_WEBHOOK_SECRET, resp.signature[1][2], resp.body)

\* the same payment, delivered twice in validly signed envelopes with the
\* same timestamp, has been recorded twice
PaymentRecordedTwice ==
  /\ PlainHeader /\ InWindow /\ SignedAsReceived
  /\ ticks = 0
  /\ resp.body = Payment
  /\ Len(billing) = 2
  /\ billing[2] = resp.row
  /\ billing[1].stripe_payment_id = billing[2].stripe_payment_id
  /\ billing[1].amount = billing[2].amount
  /\ billing[1].id # billing[2].id

====
